---- MODULE Spec2Model ----
(***************************************************************************)
(* A model of the Pokemon-playing agent: SimpleAgent (src/agent/agent.py), *)
(* the backend adapter OllamaClient (src/ollama_client.py) and the process *)
(* entry main (src/main.py).                                               *)
(*                                                                         *)
(* Texts are sequences of strings.  Text produced by the backend is a      *)
(* sequence of one-character strings; a fixed prompt of the program is one *)
(* element holding the whole prompt.                                       *)
(***************************************************************************)
EXTENDS Integers, Sequences, FiniteSets, TLC

VARIABLES
    pc,               \* position of main()/run()
    running,          \* SimpleAgent.running
    max_history,      \* SimpleAgent.max_history
    message_history,  \* SimpleAgent.message_history
    num_steps,        \* argument of run()
    steps_completed,  \* local of run()
    response,         \* local of run(): the reply being processed
    backend_raised,   \* whether the last client.chat call raised
    tool_idx,         \* call_tool_from_response: index of the next tool call
    results,          \* call_tool_from_response: results so far
    scanned,          \* whether the fallback parser ran in the current step
    step_presses,     \* emulator.press_buttons calls made in the current step
    exc,              \* the exception that left run(), "none" if none
    retval,           \* what run() returned, -1 if it has not returned
    stop_calls,       \* number of calls of SimpleAgent.stop
    emu_stop_calls,   \* number of calls of emulator.stop
    n_user,           \* observation turns appended by the loop so far
    n_asst,           \* assistant turns appended by the loop so far
    sent_messages,    \* the messages of the last chat_via_client call
    summary_response  \* summarize_history: what chat_via_client returned

vars == <<pc, running, max_history, message_history, num_steps, steps_completed,
          response, backend_raised, tool_idx, results, scanned, step_presses,
          exc, retval, stop_calls, emu_stop_calls, n_user, n_asst,
          sent_messages, summary_response>>

---------------------------------------------------------------------------
(* Bounds and program constants *)

MAX_HISTORY == 10

\* a configured max_history small enough for summarisation to happen
MaxHistoryCfg == 2

\* largest step budget handed to run()
MaxSteps == 5

\* largest number of tool calls in one reply
MaxToolCalls == 2

\* largest number of stop() calls made by the embedding code besides main's
MaxExtraStops == 1

\* largest number of words in a text handed to the fallback parser
MaxWords == 2

---------------------------------------------------------------------------
(* Text *)

Lower == <<"a","b","c","d","e","f","g","h","i","j","k","l","m",
           "n","o","p","q","r","s","t","u","v","w","x","y","z">>

Upper == <<"A","B","C","D","E","F","G","H","I","J","K","L","M",
           "N","O","P","Q","R","S","T","U","V","W","X","Y","Z">>

\* str.upper on one character
upper_char(c) ==
    IF \E i \in 1..26 : Lower[i] = c
    THEN Upper[CHOOSE i \in 1..26 : Lower[i] = c]
    ELSE c

\* a parser that compares the text as written, without str.upper
upper_missing(s) == s

\* str.upper
upper(s) == [i \in 1..Len(s) |-> upper_char(s[i])]

\* a match of whole words only: the occurrence is delimited by spaces
Contains_whole_word(sub, s) ==
    \E i \in 0..(Len(s) - Len(sub)) :
        /\ \A j \in 1..Len(sub) : s[i + j] = sub[j]
        /\ i = 0 \/ s[i] = " "
        /\ i + Len(sub) = Len(s) \/ s[i + Len(sub) + 1] = " "

\* Python's `sub in s` on strings
Contains(sub, s) ==
    \E i \in 0..(Len(s) - Len(sub)) :
        \A j \in 1..Len(sub) : s[i + j] = sub[j]

StartsWith(s, prefix) ==
    /\ Len(prefix) <= Len(s)
    /\ \A j \in 1..Len(prefix) : s[j] = prefix[j]

valid_buttons ==
    << <<"A">>, <<"B">>, <<"S","T","A","R","T">>, <<"S","E","L","E","C","T">>,
       <<"U","P">>, <<"D","O","W","N">>, <<"L","E","F","T">>,
       <<"R","I","G","H","T">> >>


\* the loop of _parse_and_execute_text_response over valid_buttons
RECURSIVE scan_buttons(_, _, _)
scan_buttons(content, i, buttons_to_press) ==
    IF i > Len(valid_buttons)
    THEN buttons_to_press
    ELSE scan_buttons(content, i + 1,
                      IF Contains(valid_buttons[i], content)
                      THEN Append(buttons_to_press, valid_buttons[i])
                      ELSE buttons_to_press)

\* the list _parse_and_execute_text_response hands to emulator.press_buttons
parse_text_response(content) == scan_buttons(upper(content), 1, <<>>)

---------------------------------------------------------------------------
(* Turns of the history *)

TextPart(t) == [type |-> "text", text |-> t]

ImagePart == [type |-> "image", source |-> "base64 image/png"]

ListContent(parts) == [is_list |-> TRUE, parts |-> parts, text |-> <<>>]

StrContent(t) == [is_list |-> FALSE, parts |-> <<>>, text |-> t]

INITIAL_PROMPT ==
    "You are playing Pokemon Red. What do you want to do? You can press buttons like A, B, START, SELECT, UP, DOWN, LEFT, and RIGHT."

initial_message ==
    [role |-> "user",
     content |-> ListContent(<<TextPart(<<INITIAL_PROMPT>>), ImagePart>>)]

user_message ==
    [role |-> "user",
     content |-> ListContent(
        <<TextPart(<<"Current game state: Location: ", "<location>",
                     " Coordinates: ", "<coordinates>",
                     " What button(s) would you like to press next?">>),
          ImagePart>>)]

assistant_message(content) ==
    [role |-> "assistant", content |-> StrContent(content)]

\* a summary turn built without the screenshot
summary_message_without_image(mh, summary_text) ==
    [role |-> "user",
     content |-> ListContent(
        <<TextPart(<<"CONVERSATION HISTORY SUMMARY (representing ", ToString(mh),
                     " previous messages): ">> \o summary_text),
          TextPart(<<"You were just asked to summarize your playthrough so far, which is the summary you see above. You may now continue playing by selecting your next action.">>)>>)]

\* a summary turn given the role of the model that wrote the summary
summary_message_as_assistant(mh, summary_text) ==
    [role |-> "assistant",
     content |-> ListContent(
        <<TextPart(<<"CONVERSATION HISTORY SUMMARY (representing ", ToString(mh),
                     " previous messages): ">> \o summary_text),
          TextPart(<<"Current game screenshot for reference:">>),
          ImagePart,
          TextPart(<<"You were just asked to summarize your playthrough so far, which is the summary you see above. You may now continue playing by selecting your next action.">>)>>)]

summary_message(mh, summary_text) ==
    [role |-> "user",
     content |-> ListContent(
        <<TextPart(<<"CONVERSATION HISTORY SUMMARY (representing ", ToString(mh),
                     " previous messages): ">> \o summary_text),
          TextPart(<<"Current game screenshot for reference:">>),
          ImagePart,
          TextPart(<<"You were just asked to summarize your playthrough so far, which is the summary you see above. You may now continue playing by selecting your next action.">>)>>)]

SYSTEM_PROMPT == "You are playing Pokemon Red. ..."

SUMMARY_PROMPT == "I need you to create a detailed summary of our conversation history up to this point. ..."

\* the flattening of one content list
RECURSIVE flatten_parts(_, _, _)
flatten_parts(parts, i, content) ==
    IF i > Len(parts)
    THEN content
    ELSE flatten_parts(parts, i + 1,
            IF parts[i].type = "text"
            THEN content \o parts[i].text \o <<"\n">>
            ELSE IF parts[i].type = "image"
                 THEN content \o <<"[IMAGE: Game Screenshot]\n">>
                 ELSE content)

format_messages_for_ollama(history) ==
    <<[role |-> "system", content |-> <<SYSTEM_PROMPT>>]>> \o
    [i \in 1..Len(history) |->
        [role |-> history[i].role,
         content |-> IF history[i].content.is_list
                     THEN flatten_parts(history[i].content.parts, 1, <<>>)
                     ELSE history[i].content.text]]

---------------------------------------------------------------------------
(* The backend and the adapter *)

\* assistant texts the backend answers with
ReplyTexts == { <<"o","k">>, <<"u","p"," ","A">> }

\* messages of the exceptions client.chat raises
ErrMsgs == { <<"o","f","f">> }

\* tool invocation requests the backend asks for
ToolRequests ==
    { [name |-> "press_buttons", arguments |-> [buttons |-> <<"a">>]],
      [name |-> "press", arguments |-> [buttons |-> <<"b">>]],
      [name |-> "navigate_to", arguments |-> [row |-> 1, col |-> 1]] }

SeqsUpTo(S, n) == UNION { [1..k -> S] : k \in 0..n }

ToolCallSeqs == SeqsUpTo(ToolRequests, MaxToolCalls)

\* what one client.chat call does: it raises e, or returns text and tool calls
BackendOutcomes ==
    [raises : {FALSE}, text : ReplyTexts, tool_calls : ToolCallSeqs, e : {<<>>}]
    \cup
    [raises : {TRUE}, text : {<<>>}, tool_calls : {<<>>}, e : ErrMsgs]

NoResponse == [kind |-> "none", content |-> <<>>, tool_calls |-> <<>>]

\* an except branch that returns the bare message of the exception
chat_via_client_bare_message(outcome) ==
    IF outcome.raises
    THEN [kind |-> "dict", content |-> outcome.e, tool_calls |-> <<>>]
    ELSE [kind |-> "obj",
          content |-> outcome.text,
          tool_calls |-> outcome.tool_calls]

\* kind "obj" is the backend's response object, kind "dict" the plain dict of
\* the except branch, which has a "message" key and no message attribute
chat_via_client(outcome) ==
    IF outcome.raises
    THEN [kind |-> "dict",
          content |-> <<"E","r","r","o","r",":"," ">> \o outcome.e,
          tool_calls |-> <<>>]
    ELSE [kind |-> "obj",
          content |-> outcome.text,
          tool_calls |-> outcome.tool_calls]

\* the names get_available_functions maps
available_functions == {"press_buttons", "press"}

\* whether function_to_call(**function_args) binds its arguments
binds(name, arguments) ==
    IF name = "press_buttons"
    THEN /\ "buttons" \in DOMAIN arguments
         /\ DOMAIN arguments \subseteq {"buttons", "wait"}
    ELSE DOMAIN arguments = {"button"}

\* the buttons the function passes to emulator.press_buttons
buttons_of(name, arguments) ==
    IF name = "press_buttons" THEN arguments.buttons ELSE <<arguments.button>>

\* what emulator.press_buttons does
EmuOutcomes == {"ok", "raises"}

\* the entry call_tool_from_response appends for one tool call
tool_result(tool, outcome) ==
    IF tool.name \notin available_functions
    THEN [tool |-> tool.name, args |-> tool.arguments, status |-> "error",
          error |-> "not found"]
    ELSE IF ~binds(tool.name, tool.arguments)
    THEN [tool |-> tool.name, args |-> tool.arguments, status |-> "error",
          error |-> "TypeError"]
    ELSE IF outcome = "raises"
    THEN [tool |-> tool.name, args |-> tool.arguments, status |-> "error",
          error |-> "raised"]
    ELSE [tool |-> tool.name, args |-> tool.arguments, status |-> "result",
          error |-> "none"]

\* whether the tool call reaches emulator.press_buttons
reaches_emulator(tool) ==
    /\ tool.name \in available_functions
    /\ binds(tool.name, tool.arguments)

---------------------------------------------------------------------------
(* The agent: SimpleAgent and main *)

\* positions inside run()
RunPcs == {"loop", "get_action", "process", "tools", "fallback", "step_end",
           "check", "summary_query", "summarize"}

\* The agent after __init__, before main calls run().  max_history is the
\* instance attribute: MAX_HISTORY as __init__ sets it, or a smaller configured
\* value, with which summarisation happens within MaxSteps steps.
Init ==
    /\ pc = "start"
    /\ running = FALSE
    /\ max_history \in {MaxHistoryCfg, MAX_HISTORY}
    /\ message_history = <<>>
    /\ num_steps \in 0..MaxSteps
    /\ steps_completed = 0
    /\ response = NoResponse
    /\ backend_raised = FALSE
    /\ tool_idx = 0
    /\ results = <<>>
    /\ scanned = FALSE
    /\ step_presses = <<>>
    /\ exc = "none"
    /\ retval = -1
    /\ stop_calls = 0
    /\ emu_stop_calls = 0
    /\ n_user = 0
    /\ n_asst = 0
    /\ sent_messages = <<>>
    /\ summary_response = NoResponse

\* run() up to the loop: emulator.initialize, running, _send_initial_observation
Run ==
    /\ pc = "start"
    /\ running' = TRUE
    /\ steps_completed' = 0
    /\ message_history' = Append(message_history, initial_message)
    /\ pc' = "loop"
    /\ UNCHANGED <<sent_messages, summary_response,
                   max_history, num_steps, response, backend_raised, tool_idx,
                   results, scanned, step_presses, exc, retval, stop_calls,
                   emu_stop_calls, n_user, n_asst>>

\* a loop test that is off by one: steps_completed <= num_steps
LoopTest_off_by_one ==
    /\ pc = "loop"
    /\ IF running /\ steps_completed <= num_steps
       THEN /\ pc' = "get_action"
            /\ retval' = retval
            /\ UNCHANGED <<response, tool_idx, results, summary_response>>
       ELSE /\ pc' = "returned"
            /\ retval' = steps_completed
            /\ response' = NoResponse
            /\ tool_idx' = 0
            /\ results' = <<>>
            /\ summary_response' = NoResponse
    /\ UNCHANGED <<sent_messages, running, max_history, message_history,
                   num_steps, steps_completed, backend_raised, scanned,
                   step_presses, exc, stop_calls, emu_stop_calls, n_user,
                   n_asst>>

\* a loop test that does not read self.running
LoopTest_ignores_running ==
    /\ pc = "loop"
    /\ IF steps_completed < num_steps
       THEN /\ pc' = "get_action"
            /\ retval' = retval
            /\ UNCHANGED <<response, tool_idx, results, summary_response>>
       ELSE /\ pc' = "returned"
            /\ retval' = steps_completed
            /\ response' = NoResponse
            /\ tool_idx' = 0
            /\ results' = <<>>
            /\ summary_response' = NoResponse
    /\ UNCHANGED <<sent_messages, running, max_history, message_history,
                   num_steps, steps_completed, backend_raised, scanned,
                   step_presses, exc, stop_calls, emu_stop_calls, n_user,
                   n_asst>>

\* the test of run()'s while loop, and the return when it fails; the locals
\* of run() and of the methods it called end with the return
LoopTest ==
    /\ pc = "loop"
    /\ IF running /\ steps_completed < num_steps
       THEN /\ pc' = "get_action"
            /\ retval' = retval
            /\ UNCHANGED <<response, tool_idx, results, summary_response>>
       ELSE /\ pc' = "returned"
            /\ retval' = steps_completed
            /\ response' = NoResponse
            /\ tool_idx' = 0
            /\ results' = <<>>
            /\ summary_response' = NoResponse
    /\ UNCHANGED <<sent_messages, running, max_history, message_history,
                   num_steps, steps_completed, backend_raised, scanned,
                   step_presses, exc, stop_calls, emu_stop_calls, n_user,
                   n_asst>>

\* a _get_next_action that formats the messages before it appends the turn
query_messages_before_append(history) == format_messages_for_ollama(history)

\* the messages _get_next_action sends, given the history it was entered with
query_messages(history) ==
    format_messages_for_ollama(Append(history, user_message))

\* _get_next_action: the observation turn, then the backend query
GetNextAction ==
    /\ pc = "get_action"
    /\ message_history' = Append(message_history, user_message)
    /\ n_user' = n_user + 1
    /\ sent_messages' = query_messages(message_history)
    /\ \E outcome \in BackendOutcomes :
         /\ response' = chat_via_client(outcome)
         /\ backend_raised' = outcome.raises
    /\ tool_idx' = 0
    /\ results' = <<>>
    /\ scanned' = FALSE
    /\ step_presses' = <<>>
    /\ pc' = "process"
    /\ UNCHANGED <<summary_response,
                   running, max_history, num_steps, steps_completed, exc,
                   retval, stop_calls, emu_stop_calls, n_asst>>

\* _process_response up to the call of call_tool_from_response
ProcessResponse ==
    /\ pc = "process"
    /\ message_history' = Append(message_history,
                                 assistant_message(response.content))
    /\ n_asst' = n_asst + 1
    /\ tool_idx' = 1
    /\ results' = <<>>
    /\ pc' = "tools"
    /\ UNCHANGED <<sent_messages, summary_response,
                   running, max_history, num_steps, steps_completed, response,
                   backend_raised, scanned, step_presses, exc, retval,
                   stop_calls, emu_stop_calls, n_user>>

\* call_tool_from_response: response.message on the dict raises AttributeError
CallToolsAttributeError ==
    /\ pc = "tools"
    /\ response.kind = "dict"
    /\ exc' = "AttributeError"
    /\ pc' = "raised"
    /\ UNCHANGED <<sent_messages, summary_response,
                   running, max_history, message_history, num_steps,
                   steps_completed, response, backend_raised, tool_idx, results,
                   scanned, step_presses, retval, stop_calls, emu_stop_calls,
                   n_user, n_asst>>

\* a loop over tool_calls that stops at the first error entry
CallTool_stops_at_error ==
    /\ pc = "tools"
    /\ response.kind = "obj"
    /\ tool_idx <= Len(response.tool_calls)
    /\ LET tool == response.tool_calls[tool_idx] IN
         IF reaches_emulator(tool)
         THEN \E outcome \in EmuOutcomes :
                /\ results' = Append(results, tool_result(tool, outcome))
                /\ step_presses' = Append(step_presses,
                       [via |-> "tool",
                        buttons |-> buttons_of(tool.name, tool.arguments),
                        outcome |-> outcome])
                /\ tool_idx' = IF outcome = "raises"
                               THEN Len(response.tool_calls) + 1
                               ELSE tool_idx + 1
         ELSE /\ results' = Append(results, tool_result(tool, "ok"))
              /\ step_presses' = step_presses
              /\ tool_idx' = Len(response.tool_calls) + 1
    /\ UNCHANGED <<sent_messages, summary_response,
                   pc, running, max_history, message_history, num_steps,
                   steps_completed, response, backend_raised, scanned, exc,
                   retval, stop_calls, emu_stop_calls, n_user, n_asst>>

\* call_tool_from_response: one iteration of the loop over tool_calls
CallTool ==
    /\ pc = "tools"
    /\ response.kind = "obj"
    /\ tool_idx <= Len(response.tool_calls)
    /\ LET tool == response.tool_calls[tool_idx] IN
         IF reaches_emulator(tool)
         THEN \E outcome \in EmuOutcomes :
                /\ results' = Append(results, tool_result(tool, outcome))
                /\ step_presses' = Append(step_presses,
                       [via |-> "tool",
                        buttons |-> buttons_of(tool.name, tool.arguments),
                        outcome |-> outcome])
         ELSE /\ results' = Append(results, tool_result(tool, "ok"))
              /\ step_presses' = step_presses
    /\ tool_idx' = tool_idx + 1
    /\ UNCHANGED <<sent_messages, summary_response,
                   pc, running, max_history, message_history, num_steps,
                   steps_completed, response, backend_raised, scanned, exc,
                   retval, stop_calls, emu_stop_calls, n_user, n_asst>>

\* call_tool_from_response returns; _process_response logs the results or
\* goes on to the text fallback
CallToolsReturn ==
    /\ pc = "tools"
    /\ response.kind = "obj"
    /\ tool_idx > Len(response.tool_calls)
    /\ pc' = IF results # <<>> THEN "step_end" ELSE "fallback"
    /\ UNCHANGED <<sent_messages, summary_response,
                   running, max_history, message_history, num_steps,
                   steps_completed, response, backend_raised, tool_idx, results,
                   scanned, step_presses, exc, retval, stop_calls,
                   emu_stop_calls, n_user, n_asst>>

\* _parse_and_execute_text_response
ParseAndExecuteTextResponse ==
    /\ pc = "fallback"
    /\ scanned' = TRUE
    /\ LET buttons_to_press == parse_text_response(response.content) IN
         IF buttons_to_press # <<>>
         THEN \E outcome \in EmuOutcomes :
                /\ step_presses' = Append(step_presses,
                       [via |-> "text", buttons |-> buttons_to_press,
                        outcome |-> outcome])
                /\ IF outcome = "raises"
                   THEN /\ exc' = "EmulatorError"
                        /\ pc' = "raised"
                   ELSE /\ exc' = exc
                        /\ pc' = "step_end"
         ELSE /\ step_presses' = step_presses
              /\ exc' = exc
              /\ pc' = "step_end"
    /\ UNCHANGED <<sent_messages, summary_response,
                   running, max_history, message_history, num_steps,
                   steps_completed, response, backend_raised, tool_idx, results,
                   retval, stop_calls, emu_stop_calls, n_user, n_asst>>

\* a loop body that goes to the summarisation test without counting the step
Increment_skipped ==
    /\ pc = "step_end"
    /\ pc' = "check"
    /\ UNCHANGED <<sent_messages, summary_response, steps_completed,
                   running, max_history, message_history, num_steps, response,
                   backend_raised, tool_idx, results, scanned, step_presses,
                   exc, retval, stop_calls, emu_stop_calls, n_user, n_asst>>

\* the end of the loop body: steps_completed += 1
Increment ==
    /\ pc = "step_end"
    /\ steps_completed' = steps_completed + 1
    /\ pc' = "check"
    /\ UNCHANGED <<sent_messages, summary_response,
                   running, max_history, message_history, num_steps, response,
                   backend_raised, tool_idx, results, scanned, step_presses,
                   exc, retval, stop_calls, emu_stop_calls, n_user, n_asst>>

\* a test that lets one more step pass before the history is summarised
SummaryTest_late ==
    /\ pc = "check"
    /\ pc' = IF Len(message_history) > max_history * 2 + 1
             THEN "summary_query" ELSE "loop"
    /\ UNCHANGED <<sent_messages, summary_response,
                   running, max_history, message_history, num_steps,
                   steps_completed, response, backend_raised, tool_idx, results,
                   scanned, step_presses, exc, retval, stop_calls,
                   emu_stop_calls, n_user, n_asst>>

\* a test that compares with max_history instead of twice max_history
SummaryTest_undoubled ==
    /\ pc = "check"
    /\ pc' = IF Len(message_history) > max_history
             THEN "summary_query" ELSE "loop"
    /\ UNCHANGED <<sent_messages, summary_response,
                   running, max_history, message_history, num_steps,
                   steps_completed, response, backend_raised, tool_idx, results,
                   scanned, step_presses, exc, retval, stop_calls,
                   emu_stop_calls, n_user, n_asst>>

\* the test that guards summarize_history in run()
SummaryTest ==
    /\ pc = "check"
    /\ pc' = IF Len(message_history) > max_history * 2
             THEN "summary_query" ELSE "loop"
    /\ UNCHANGED <<sent_messages, summary_response,
                   running, max_history, message_history, num_steps,
                   steps_completed, response, backend_raised, tool_idx, results,
                   scanned, step_presses, exc, retval, stop_calls,
                   emu_stop_calls, n_user, n_asst>>

summary_request == [role |-> "user", content |-> <<SUMMARY_PROMPT>>]

\* the messages summarize_history sends
summary_messages(history) ==
    Append(format_messages_for_ollama(history), summary_request)

\* a summarize_history that appends the request to message_history itself
history_with_request(history) ==
    Append(history,
           [role |-> "user", content |-> StrContent(<<SUMMARY_PROMPT>>)])

\* message_history once the messages of the query are built: the request was
\* appended to the list _format_messages_for_ollama returned, a new list
history_after_request(history) == history

\* what client.chat does when called without tools: no tool call comes back
SummaryOutcomes == { o \in BackendOutcomes : o.tool_calls = <<>> }

\* summarize_history up to the reply of chat_via_client
SummaryQuery ==
    /\ pc = "summary_query"
    /\ sent_messages' = summary_messages(message_history)
    /\ message_history' = history_after_request(message_history)
    /\ \E outcome \in SummaryOutcomes :
         /\ backend_raised' = outcome.raises
         /\ summary_response' = chat_via_client(outcome)
    /\ pc' = "summarize"
    /\ UNCHANGED <<running, max_history, num_steps, steps_completed, response,
                   tool_idx, results, scanned, step_presses, exc, retval,
                   stop_calls, emu_stop_calls, n_user, n_asst>>

\* a summarize_history that keeps the last turn before the summary
summarized_keeping_last(history, mh, reply) ==
    <<history[Len(history)], summary_message(mh, reply.content)>>

\* a summarize_history that leaves the history alone when the backend failed
summarized_unless_failed(history, mh, reply) ==
    IF reply.kind = "dict"
    THEN history
    ELSE <<summary_message(mh, reply.content)>>

\* the history summarize_history leaves, given what chat_via_client returned
summarized(history, mh, reply) == <<summary_message(mh, reply.content)>>

\* summarize_history from the reply on: the history is replaced
SummarizeHistory ==
    /\ pc = "summarize"
    /\ message_history' =
           summarized(message_history, max_history, summary_response)
    /\ pc' = "loop"
    /\ UNCHANGED <<sent_messages, summary_response, backend_raised,
                   running, max_history, num_steps, steps_completed, response,
                   tool_idx, results, scanned, step_presses, exc, retval,
                   stop_calls, emu_stop_calls, n_user, n_asst>>

\* KeyboardInterrupt while run() is executing: the frames of run() and of the
\* methods it called are unwound, their locals with them
Interrupt ==
    /\ pc \in RunPcs
    /\ exc' = "KeyboardInterrupt"
    /\ pc' = "raised"
    /\ response' = NoResponse
    /\ tool_idx' = 0
    /\ results' = <<>>
    /\ summary_response' = NoResponse
    /\ UNCHANGED <<sent_messages, running, max_history, message_history,
                   num_steps, steps_completed, backend_raised, scanned,
                   step_presses, retval, stop_calls, emu_stop_calls, n_user,
                   n_asst>>

\* SimpleAgent.stop
stop ==
    /\ running' = FALSE
    /\ emu_stop_calls' = emu_stop_calls + 1
    /\ stop_calls' = stop_calls + 1

\* a main that stops the agent after run() and in the except clause only
MainFinally_no_finally ==
    /\ pc \in {"returned", "raised"}
    /\ IF exc \in {"none", "KeyboardInterrupt"}
       THEN stop
       ELSE UNCHANGED <<running, emu_stop_calls, stop_calls>>
    /\ pc' = IF exc \in {"none", "KeyboardInterrupt"} THEN "exited" ELSE "crashed"
    /\ UNCHANGED <<sent_messages, summary_response,
                   max_history, message_history, num_steps, steps_completed,
                   response, backend_raised, tool_idx, results, scanned,
                   step_presses, exc, retval, n_user, n_asst>>

\* main: the except clause and the finally block after run() ended
MainFinally ==
    /\ pc \in {"returned", "raised"}
    /\ stop
    /\ pc' = IF exc \in {"none", "KeyboardInterrupt"} THEN "exited" ELSE "crashed"
    /\ UNCHANGED <<sent_messages, summary_response,
                   max_history, message_history, num_steps, steps_completed,
                   response, backend_raised, tool_idx, results, scanned,
                   step_presses, exc, retval, n_user, n_asst>>

\* a call of stop() by the code that embeds the agent, once run() was called
Stop ==
    /\ pc # "start"
    /\ stop_calls - (IF pc \in {"exited", "crashed"} THEN 1 ELSE 0) < MaxExtraStops
    /\ stop
    /\ UNCHANGED <<sent_messages, summary_response,
                   pc, max_history, message_history, num_steps, steps_completed,
                   response, backend_raised, tool_idx, results, scanned,
                   step_presses, exc, retval, n_user, n_asst>>

Next ==
    \/ Run
    \/ LoopTest
    \/ GetNextAction
    \/ ProcessResponse
    \/ CallToolsAttributeError
    \/ CallTool
    \/ CallToolsReturn
    \/ ParseAndExecuteTextResponse
    \/ Increment
    \/ SummaryTest
    \/ SummaryQuery
    \/ SummarizeHistory
    \/ Interrupt
    \/ MainFinally

\* the process entry: main() runs the agent and stops it
Spec == Init /\ [][Next]_vars

NextApi == Next \/ Stop

\* the agent driven by code that also calls stop() itself
SpecApi == Init /\ [][NextApi]_vars

---------------------------------------------------------------------------
(* The text fallback parser on its own: a step whose reply has no tool call *)

ExampleText ==
    <<"i"," ","w","i","l","l"," ","p","r","e","s","s"," ","u","p"," ",
      "a","n","d"," ","t","h","e","n"," ","A"," ","t","o"," ",
      "c","o","n","f","i","r","m">>

\* pieces the assistant texts are put together from
Words ==
    { <<"a">>, <<"B">>, <<"u","p">>, <<"U","p">>, <<"s","t">>, <<"A","r","t">>,
      <<"S","e","l","e","c","t">>, <<"d","o","w","n">>, <<"l","e","f","t">>,
      <<"R","I","G","H","T">>, <<" ">>, <<"o","k">>, <<"x">>, ExampleText }

RECURSIVE Concat(_)
Concat(ws) == IF ws = <<>> THEN <<>> ELSE Head(ws) \o Concat(Tail(ws))

ParserTexts == { Concat(ws) : ws \in SeqsUpTo(Words, MaxWords) }

InitParser ==
    /\ pc = "fallback"
    /\ running = TRUE
    /\ max_history = MAX_HISTORY
    /\ num_steps = 1
    /\ steps_completed = 0
    /\ \E t \in ParserTexts :
         /\ response = [kind |-> "obj", content |-> t, tool_calls |-> <<>>]
         /\ message_history =
                <<initial_message, user_message, assistant_message(t)>>
    /\ backend_raised = FALSE
    /\ tool_idx = 1
    /\ results = <<>>
    /\ scanned = FALSE
    /\ step_presses = <<>>
    /\ exc = "none"
    /\ retval = -1
    /\ stop_calls = 0
    /\ emu_stop_calls = 0
    /\ n_user = 1
    /\ n_asst = 1
    /\ sent_messages = format_messages_for_ollama(<<initial_message, user_message>>)
    /\ summary_response = NoResponse

SpecParser == InitParser /\ [][ParseAndExecuteTextResponse]_vars

---------------------------------------------------------------------------
(* Properties *)

\* C1: summarize_history, entered with more than 2 * max_history turns,
\* leaves message_history with exactly one turn, whatever the backend did.
C1_SummarizeLeavesOneTurn ==
    [][(pc = "summarize" /\ pc' = "loop")
        => (/\ Len(message_history) > 2 * max_history
            /\ Len(message_history') = 1)]_vars

C1_Witness ==
    /\ pc = "loop"
    /\ steps_completed > 0
    /\ Len(message_history) = 1
    /\ ~backend_raised

ErrorPrefix == <<"E","r","r","o","r",":">>

\* C2: when client.chat raised, chat_via_client still returned to its caller,
\* and what it returned has a text starting with "Error:" and no tool call.
C2_DegradedReply ==
    backend_raised /\ pc = "process"
        => /\ exc = "none"
           /\ StartsWith(response.content, ErrorPrefix)
           /\ response.tool_calls = <<>>

C2_Witness == backend_raised /\ pc = "process" /\ response.kind = "dict"

\* C3: a backend failure during a step does not end the loop: no exception
\* leaves run() in a step whose backend call failed.
C3_LoopSurvivesBackendFailure ==
    backend_raised => exc \in {"none", "KeyboardInterrupt"}

\* C4: two calls of stop() invoke emulator.stop at most once in total.
C4_StopTwiceTearsDownOnce == stop_calls >= 2 => emu_stop_calls <= 1

\* C5: with a budget of N >= 1 steps, no stop request and no fault, run()
\* returns N, having appended N observation turns and N assistant turns, one
\* observation before each assistant turn.
C5_RunsExactlyNSteps ==
    /\ pc \in RunPcs => n_user - n_asst \in {0, 1}
    /\ (pc = "returned" /\ num_steps >= 1)
         => /\ retval = num_steps
            /\ n_user = num_steps
            /\ n_asst = num_steps

C5_Witness == pc = "returned" /\ num_steps >= 3 /\ retval = num_steps

\* the tool calls among the first n that reach emulator.press_buttons
RECURSIVE reaching(_, _)
reaching(tool_calls, n) ==
    IF n = 0 THEN <<>>
    ELSE IF /\ tool_calls[n].name \in {"press_buttons", "press"}
            /\ binds(tool_calls[n].name, tool_calls[n].arguments)
         THEN Append(reaching(tool_calls, n - 1), tool_calls[n])
         ELSE reaching(tool_calls, n - 1)

\* C6: call_tool_from_response handles the tool calls in the order received
\* and returns one entry per call in that order; an unknown tool, rejected
\* arguments or a raising action give an error entry, and the later calls
\* are still executed.
C6_OneResultPerRequest ==
    (response.kind = "obj" /\ pc \in {"tools", "fallback", "step_end", "check"})
        => /\ pc = "tools" => Len(results) = tool_idx - 1
           /\ pc # "tools" => Len(results) = Len(response.tool_calls)
           /\ Len(results) <= Len(response.tool_calls)
           /\ \A i \in 1..Len(results) :
                LET tool == response.tool_calls[i] IN
                /\ results[i].tool = tool.name
                /\ results[i].args = tool.arguments
                /\ tool.name \notin {"press_buttons", "press"}
                     => results[i].status = "error"
                /\ ~binds(tool.name, tool.arguments)
                     => results[i].status = "error"
           /\ ~scanned =>
                LET reached == reaching(response.tool_calls, Len(results)) IN
                /\ Len(step_presses) = Len(reached)
                /\ \A k \in 1..Len(reached) :
                     /\ step_presses[k].via = "tool"
                     /\ step_presses[k].buttons = reached[k].arguments.buttons
           /\ \A i \in 1..Len(results) :
                results[i].status = "error"
                    <=> \/ ~reaches_emulator(response.tool_calls[i])
                        \/ \E k \in 1..Len(step_presses) :
                             /\ k = Len(reaching(response.tool_calls, i))
                             /\ step_presses[k].outcome = "raises"

C6_Witness ==
    /\ pc = "step_end"
    /\ Len(results) = 2
    /\ results[1].status = "error"
    /\ results[1].tool = "navigate_to"
    /\ results[2].status = "result"
    /\ results[2].tool = "press_buttons"

\* two characters that are the same letter, whatever their case
SameLetter(a, b) ==
    \/ a = b
    \/ \E k \in 1..26 : {a, b} = {Lower[k], Upper[k]}

\* the token occurs in the text, compared without regard to case
OccursCI(token, text) ==
    \E i \in 0..(Len(text) - Len(token)) :
        \A j \in 1..Len(token) : SameLetter(text[i + j], token[j])

\* the list the fallback parser passed to emulator.press_buttons, if any
FallbackButtons ==
    IF \E k \in 1..Len(step_presses) : step_presses[k].via = "text"
    THEN step_presses[Len(step_presses)].buttons
    ELSE <<>>

\* C7: the buttons the fallback parser presses are the canonical list
\* filtered to the tokens occurring in the text without regard to case, each
\* once, in canonical order; the example text gives A then UP.
C7_CanonicalFilter ==
    scanned =>
        LET Occurs(b) == OccursCI(b, response.content) IN
        /\ FallbackButtons = SelectSeq(valid_buttons, Occurs)
        /\ \A i, j \in 1..Len(FallbackButtons) :
             i # j => FallbackButtons[i] # FallbackButtons[j]
        /\ response.content = ExampleText
             => FallbackButtons = << <<"A">>, <<"U","P">> >>

C7_Witness ==
    /\ scanned
    /\ response.content = ExampleText
    /\ FallbackButtons = << <<"A">>, <<"U","P">> >>

\* C8: however main leaves run() (budget reached, interruption, unhandled
\* exception), emulator.stop has been called exactly once when main ends, and
\* not before.
C8_TeardownOnEveryExit ==
    /\ pc \in {"exited", "crashed"} => emu_stop_calls = 1
    /\ pc \notin {"exited", "crashed"} => emu_stop_calls = 0

C8_Witness == pc = "crashed" /\ exc = "EmulatorError" /\ emu_stop_calls = 1

\* C9: an action execution fault, from a tool call or from the fallback
\* parser's press, never leaves run() as an exception.
C9_ActionFaultIsCaptured == exc # "EmulatorError"

\* C10: by the end of a step the fallback parser has run if and only if the
\* reply carried no tool call.
C10_FallbackIffNoToolCalls ==
    (\/ pc \in {"step_end", "check"}
     \/ (pc = "raised" /\ exc \in {"AttributeError", "EmulatorError"}))
        => (scanned <=> response.tool_calls = <<>>)


\* the turns of the history that summarize_history built
SummaryTurns ==
    { i \in 1..Len(message_history) :
        /\ message_history[i].content.is_list
        /\ message_history[i] \notin {initial_message, user_message} }

\* C11: the turn summarize_history leaves has exactly one image part and at
\* least two text parts, in the order summary text, screenshot introduction,
\* image, invitation to continue, whatever was summarised.
C11_SummaryTurnShape ==
    \A i \in SummaryTurns :
        LET parts == message_history[i].content.parts IN
        /\ i = 1
        /\ Cardinality({k \in 1..Len(parts) : parts[k].type = "image"}) = 1
        /\ Cardinality({k \in 1..Len(parts) : parts[k].type = "text"}) >= 2
        /\ [k \in 1..Len(parts) |-> parts[k].type]
             = <<"text", "text", "image", "text">>
        /\ parts[1].text[1] = "CONVERSATION HISTORY SUMMARY (representing "
        /\ parts[1].text[2] = ToString(max_history)
        /\ (pc = "loop" /\ Len(message_history) = 1)
             => SubSeq(parts[1].text, 4, Len(parts[1].text))
                    = summary_response.content
        /\ parts[2].text = <<"Current game screenshot for reference:">>
        /\ Len(parts[4].text) = 1

C11_Witness ==
    /\ SummaryTurns = {1}
    /\ Len(message_history) = 3
    /\ summary_response.kind = "obj"

\* C12: a reply with no tool call and a text with none of the eight tokens
\* sends no button press, and its step ends normally.
C12_NoTokenIsNoOp ==
    (/\ response.kind # "none"
     /\ response.tool_calls = <<>>
     /\ \A k \in 1..Len(valid_buttons) :
            ~OccursCI(valid_buttons[k], response.content))
        => /\ step_presses = <<>>
           /\ exc \in {"none", "KeyboardInterrupt"}

\* C13: the history is summarised at the end of a step if and only if it has
\* more than 2 * max_history turns; otherwise the step leaves it as it is.
C13_SummaryIffOverThreshold ==
    [][/\ (pc = "check" /\ pc' \notin {"check", "raised"})
          => /\ message_history' = message_history
             /\ pc' = IF Len(message_history) > 2 * max_history
                      THEN "summary_query" ELSE "loop"
       /\ (pc' \in {"summary_query", "summarize"} /\ pc' # pc)
          => Len(message_history) > 2 * max_history
       /\ (pc \in RunPcs /\ Len(message_history') < Len(message_history))
          => /\ pc = "summarize"
             /\ Len(message_history) > 2 * max_history]_vars

C13_Witness ==
    /\ pc = "summary_query"
    /\ Len(message_history) = 2 * max_history + 1


\* C14: a stop request is observed at the top of the next iteration: with
\* running false the loop test starts no step (no turn is appended, nothing is
\* sent to the backend), run() returns only from the loop test, and it returns
\* the number of steps completed.
C14_StopObservedAtLoopTop ==
    [][/\ (pc = "loop" /\ ~running)
          => /\ pc' \in {"loop", "returned", "raised"}
             /\ message_history' = message_history
             /\ sent_messages' = sent_messages
             /\ n_user' = n_user
       /\ (pc' = "returned" /\ pc # "returned")
          => /\ pc = "loop"
             /\ retval' = steps_completed
             /\ n_user = steps_completed
             /\ n_asst = steps_completed]_vars

C14_Witness ==
    /\ pc = "returned"
    /\ ~running
    /\ retval >= 1
    /\ retval < num_steps

\* C15: in a step, the observation turn is in the history when the backend is
\* queried with the flattened history, the assistant turn is appended after
\* the reply, and the emulator acts only after the assistant turn is appended.
C15_StepOrder ==
    /\ pc = "process"
         => /\ message_history[Len(message_history)] = user_message
            /\ sent_messages = format_messages_for_ollama(message_history)
            /\ n_user = n_asst + 1
            /\ step_presses = <<>>
    /\ pc \in {"tools", "fallback", "step_end", "check"}
         => /\ message_history[Len(message_history)]
                  = assistant_message(response.content)
            /\ message_history[Len(message_history) - 1] = user_message
            /\ sent_messages = format_messages_for_ollama(
                  SubSeq(message_history, 1, Len(message_history) - 1))
    /\ step_presses # <<>> => n_asst = n_user

C15_Witness ==
    /\ pc = "step_end"
    /\ step_presses # <<>>
    /\ message_history[Len(message_history)].role = "assistant"

\* C16 as claimed: the summarisation test and summarize_history run before
\* the step counter is incremented.
C16_CheckBeforeIncrement ==
    pc \in {"check", "summary_query", "summarize"}
        => steps_completed = n_asst - 1

\* C16 as amended: the step counter is incremented before the summarisation
\* test and summarize_history.
C16_IncrementBeforeCheck ==
    /\ pc = "step_end" => steps_completed = n_asst - 1
    /\ pc \in {"check", "summary_query", "summarize"}
         => steps_completed = n_asst

C16_Witness == pc = "summarize" /\ steps_completed = n_asst

\* the turns of the history that hold the summarisation prompt
PromptTurns ==
    { i \in 1..Len(message_history) :
        \/ message_history[i].content.text = <<SUMMARY_PROMPT>>
        \/ \E k \in 1..Len(message_history[i].content.parts) :
              /\ message_history[i].content.parts[k].type = "text"
              /\ message_history[i].content.parts[k].text = <<SUMMARY_PROMPT>> }

\* C17: the summarisation request is appended to the flattened copy only: no
\* turn of the history ever holds the summarisation prompt, and the query of
\* summarize_history sends the flattened history followed by the request and
\* leaves the history as it was.
C17_RequestOnlyInCopy ==
    /\ [](PromptTurns = {})
    /\ [][(pc = "summary_query" /\ pc' = "summarize")
            => /\ message_history' = message_history
               /\ sent_messages'
                    = Append(format_messages_for_ollama(message_history),
                             summary_request)]_vars

C17_Witness ==
    /\ pc = "summarize"
    /\ sent_messages[Len(sent_messages)] = summary_request
    /\ Len(sent_messages) = Len(message_history) + 2

\* C18: the history never has more than 2 * max_history + 1 turns, and at
\* the loop test it has at most 2 * max_history - 1.
C18_HistoryBounded ==
    /\ Len(message_history) <= 2 * max_history + 1
    /\ pc = "loop" => Len(message_history) <= 2 * max_history - 1

C18_Witness ==
    /\ pc = "loop"
    /\ Len(message_history) = 2 * max_history - 1
    /\ steps_completed > max_history

\* C19: when the backend call of summarize_history failed, nothing is raised
\* and the history is still replaced by the one summary turn, whose summary
\* text is the "Error: ..." message of the adapter.
C19_FailedSummaryStillReplaces ==
    [][/\ (pc = "summary_query" /\ pc' = "summarize" /\ backend_raised')
          => /\ exc' = "none"
             /\ StartsWith(summary_response'.content, ErrorPrefix)
       /\ (pc = "summarize" /\ backend_raised /\ pc' \notin {pc, "raised"})
          => /\ pc' = "loop"
             /\ exc' = "none"
             /\ StartsWith(summary_response.content, ErrorPrefix)
             /\ message_history'
                  = <<summary_message(max_history, summary_response.content)>>]_vars

C19_Witness ==
    /\ pc = "loop"
    /\ backend_raised
    /\ summary_response.kind = "dict"
    /\ SummaryTurns = {1}
    /\ Len(message_history) = 1

\* C20: once the initial observation is in, the history is not empty, its
\* first turn is a user turn, every assistant turn follows a user turn, and
\* the turn after the first one (the initial observation or a summary turn)
\* is a user turn.
C20_TurnAlternation ==
    pc # "start"
        => /\ Len(message_history) >= 1
           /\ message_history[1].role = "user"
           /\ message_history[1] = initial_message \/ SummaryTurns = {1}
           /\ \A i \in 1..Len(message_history) :
                 message_history[i].role = "assistant"
                     => i > 1 /\ message_history[i - 1].role = "user"
           /\ Len(message_history) >= 2 => message_history[2].role = "user"

C20_Witness ==
    /\ pc = "step_end"
    /\ SummaryTurns = {1}
    /\ Len(message_history) = 3
    /\ message_history[2].role = "user"
    /\ message_history[3].role = "assistant"

\* the positions of a token in the list the fallback parser pressed
PressedAt(token) ==
    { i \in 1..Len(FallbackButtons) : FallbackButtons[i] = token }

\* C21: tokens are matched as substrings, also inside a word or another
\* token: every token whose letters occur in the text is in the pressed list,
\* and whenever START is in the pressed list A is in it too, before START.
C21_StartBringsA ==
    scanned =>
        /\ \A k \in 1..Len(valid_buttons) :
              OccursCI(valid_buttons[k], response.content)
                  => PressedAt(valid_buttons[k]) # {}
        /\ \A i \in PressedAt(<<"S","T","A","R","T">>) :
              \E j \in PressedAt(<<"A">>) : j < i

C21_Witness ==
    /\ scanned
    /\ response.content = <<"s","t","A","r","t">>
    /\ FallbackButtons = << <<"A">>, <<"S","T","A","R","T">> >>

====
